---- MODULE Spec2Model ----
(***************************************************************************)
(* A model of the pull-request review action of src/src/main.ts: one run   *)
(* of main(), from reading the event payload to the process exit.          *)
(*                                                                         *)
(* Every await of the program is a point where the run waits for an        *)
(* external service (the hosting API, the completion service); an action   *)
(* of the model is the code that runs from one such answer to the next     *)
(* request.  The answers of the services are inputs, drawn from small      *)
(* sets.                                                                    *)
(*                                                                         *)
(* Paths, glob patterns and the "exclude" input are sequences of one-      *)
(* character strings, so that split, trim and glob matching are computed.  *)
(* Texts that the program only carries around or hands to a library        *)
(* parser (diff text, completion reply text) are TLA+ strings.             *)
(***************************************************************************)
EXTENDS Integers, Sequences, FiniteSets, TLC

VARIABLES
    payload,       \* the event payload file (GITHUB_EVENT_PATH), fixed for a run
    excludeInput,  \* the "exclude" action input, fixed for a run
    pc,            \* where main() is: the await it is waiting at, or "done"
    stage,         \* the furthest point of main() the run has passed
    prDetails,     \* main's prDetails
    diffResponse,  \* what the hosting API answered to the diff request
    diff,          \* main's diff
    parsedDiff,    \* main's parsedDiff
    filteredDiff,  \* main's filteredDiff, analyzeCode's parsedDiff parameter
    fi,            \* analyzeCode: index of the file of the outer loop
    ci,            \* analyzeCode: index of the chunk of the inner loop
    response,      \* getAIResponse: what the completion service answered last
    aiResponse,    \* analyzeCode: what getAIResponse returned last
    comments,      \* analyzeCode: the comment accumulator
    calls,         \* every request sent to an external service, in order
    answers,       \* every answer received from an external service, in order
    terminal,      \* how the run ended: "none" while running
    exitCode       \* the exit code of the process: -1 while running

vars == <<payload, excludeInput, pc, stage, prDetails, diffResponse, diff, parsedDiff,
          filteredDiff, fi, ci, response, aiResponse, comments, calls, answers,
          terminal, exitCode>>

(***************************************************************************)
(* Bounds of the model.                                                    *)
(***************************************************************************)
\* the diffs the hosting API may answer hold at most MaxFiles files
MaxFiles == 2

(***************************************************************************)
(* Character sequences.                                                    *)
(***************************************************************************)
IsSpace(c) == c = " "

RECURSIVE TrimStart(_)
TrimStart(s) ==
    IF s # <<>> /\ IsSpace(Head(s)) THEN TrimStart(Tail(s)) ELSE s

RECURSIVE TrimEnd(_)
TrimEnd(s) ==
    IF s # <<>> /\ IsSpace(s[Len(s)])
    THEN TrimEnd(SubSeq(s, 1, Len(s) - 1))
    ELSE s

\* String.prototype.trim
Trim(s) == TrimEnd(TrimStart(s))

\* String.prototype.split(sep) for a one-character sep: "" splits into [""]
RECURSIVE SplitFrom(_, _, _)
SplitFrom(s, sep, cur) ==
    IF s = <<>> THEN <<cur>>
    ELSE IF Head(s) = sep
         THEN <<cur>> \o SplitFrom(Tail(s), sep, <<>>)
         ELSE SplitFrom(Tail(s), sep, Append(cur, Head(s)))

Split(s, sep) == SplitFrom(s, sep, <<>>)

(***************************************************************************)
(* minimatch(path, pattern) with default options, for patterns made of     *)
(* literal characters, "?", "*" and the path segment "**".                 *)
(***************************************************************************)
GLOBSTAR == <<"*", "*">>

IsDotSegment(seg) == seg # <<>> /\ Head(seg) = "."

RECURSIVE WildMatch(_, _)
WildMatch(s, p) ==
    IF p = <<>> THEN s = <<>>
    ELSE IF Head(p) = "*"
         THEN WildMatch(s, Tail(p)) \/ (s # <<>> /\ WildMatch(Tail(s), p))
         ELSE /\ s # <<>>
              /\ (Head(p) = "?" \/ Head(p) = Head(s))
              /\ WildMatch(Tail(s), Tail(p))

\* one path segment against one pattern segment: a pattern that starts with a
\* wildcard matches neither the empty segment nor a segment starting with "."
SegmentMatch(seg, p) ==
    /\ (p # <<>> /\ Head(p) \in {"*", "?"}) => (seg # <<>> /\ ~IsDotSegment(seg))
    /\ WildMatch(seg, p)

RECURSIVE PartsMatch(_, _)
PartsMatch(f, ps) ==
    IF ps = <<>> THEN f = <<>>
    ELSE IF Head(ps) = GLOBSTAR
         THEN \/ PartsMatch(f, Tail(ps))
              \/ (f # <<>> /\ ~IsDotSegment(Head(f)) /\ PartsMatch(Tail(f), ps))
         ELSE /\ f # <<>>
              /\ SegmentMatch(Head(f), Head(ps))
              /\ PartsMatch(Tail(f), Tail(ps))

minimatch(path, pattern) ==
    IF Trim(pattern) = <<>> THEN path = <<>>          \* "" only matches ""
    ELSE IF Head(pattern) = "#" THEN FALSE             \* a comment matches nothing
    ELSE PartsMatch(Split(path, "/"), Split(pattern, "/"))

(***************************************************************************)
(* JavaScript values.  null and undefined, numbers (a pair numerator,      *)
(* denominator; NaN is 0/0), strings, and the values JSON.parse yields.    *)
(***************************************************************************)
JSNull == [t |-> "null"]
JSUndefined == [t |-> "undefined"]
JSBool(b) == [t |-> "bool", b |-> b]
JSNum(n, d) == [t |-> "num", n |-> n, d |-> d]
JSInt(n) == JSNum(n, 1)
NaN == JSNum(0, 0)
JSStr(s) == [t |-> "str", s |-> s]
JSArr(items) == [t |-> "arr", items |-> items]
\* an object: f is a function from its field names to their values
JSObj(f) == [t |-> "obj", f |-> f]

\* ToBoolean: what `if (v)`, `!v` and `a || b` test
Truthy(v) ==
    CASE v.t = "null" -> FALSE
      [] v.t = "undefined" -> FALSE
      [] v.t = "bool" -> v.b
      [] v.t = "num" -> ~(v.n = 0)
      [] v.t = "str" -> v.s # ""
      [] OTHER -> TRUE

\* v.name: a TypeError on null and undefined (Throws), else the field or undefined
PropertyThrows(v) == v.t \in {"null", "undefined"}

Property(v, name) ==
    IF v.t = "obj" /\ name \in DOMAIN v.f THEN v.f[name] ELSE JSUndefined

\* Number(text) of the numeric texts the model's replies hold
NumberOfText(s) ==
    CASE s = "" -> JSInt(0)
      [] s = "5" -> JSInt(5)
      [] s = "12" -> JSInt(12)
      [] s = " 7 " -> JSInt(7)
      [] s = "-3" -> JSNum(-3, 1)
      [] s = "1.5" -> JSNum(15, 10)
      [] OTHER -> NaN

\* Number(v)
Number(v) ==
    CASE v.t = "num" -> v
      [] v.t = "str" -> NumberOfText(v.s)
      [] v.t = "null" -> JSInt(0)
      [] v.t = "bool" -> IF v.b THEN JSInt(1) ELSE JSInt(0)
      [] OTHER -> NaN      \* undefined, objects

\* the text of a number, as string concatenation writes it
TextOfNumber(v) ==
    IF v.d = 0 THEN "NaN"
    ELSE IF v.d = 1 THEN ToString(v.n)
    ELSE ToString(v.n \div v.d) \o "." \o ToString(v.n % v.d)

\* "" + v
ToText(v) ==
    CASE v.t = "str" -> v.s
      [] v.t = "undefined" -> "undefined"
      [] v.t = "null" -> "null"
      [] v.t = "bool" -> IF v.b THEN "true" ELSE "false"
      [] v.t = "num" -> TextOfNumber(v)
      [] v.t = "obj" -> "[object Object]"
      [] OTHER -> ""       \* the empty array

(***************************************************************************)
(* JSON.parse, on the reply texts of the model.  ok = FALSE is a           *)
(* SyntaxError.                                                            *)
(***************************************************************************)
Suggestion(lineNumber, reviewComment) ==
    JSObj([lineNumber |-> lineNumber, reviewComment |-> reviewComment])

Parsed(v) == [ok |-> TRUE, value |-> v]
SyntaxError == [ok |-> FALSE, value |-> JSUndefined]

JSONParse(text) ==
    CASE text = "[]" -> Parsed(JSArr(<<>>))
      [] text = "[{\"lineNumber\":\"12\",\"reviewComment\":\"fix this\"}]" ->
            Parsed(JSArr(<<Suggestion(JSStr("12"), JSStr("fix this"))>>))
      [] text = "[{\"lineNumber\":5,\"reviewComment\":\"rename\"},{\"lineNumber\":5,\"reviewComment\":\"rename\"}]" ->
            Parsed(JSArr(<<Suggestion(JSInt(5), JSStr("rename")),
                           Suggestion(JSInt(5), JSStr("rename"))>>))
      [] text = "[{\"lineNumber\":\"abc\",\"reviewComment\":\"typo\",\"severity\":1}]" ->
            Parsed(JSArr(<<JSObj([lineNumber |-> JSStr("abc"),
                                  reviewComment |-> JSStr("typo"),
                                  severity |-> JSInt(1)])>>))
      [] text = "[{\"lineNumber\":-3,\"reviewComment\":\"off\"}]" ->
            Parsed(JSArr(<<Suggestion(JSNum(-3, 1), JSStr("off"))>>))
      [] text = "[{\"lineNumber\":\"1.5\",\"reviewComment\":\"half\"}]" ->
            Parsed(JSArr(<<Suggestion(JSStr("1.5"), JSStr("half"))>>))
      [] text = "[{\"reviewComment\":\"where\"}]" ->
            Parsed(JSArr(<<JSObj([reviewComment |-> JSStr("where")])>>))
      [] text = "{}" -> Parsed(JSObj(<<>>))
      [] text = "5" -> Parsed(JSInt(5))
      [] text = "0" -> Parsed(JSInt(0))
      [] text = "\"ok\"" -> Parsed(JSStr("ok"))
      [] text = "null" -> Parsed(JSNull)
      [] text = "[null]" -> Parsed(JSArr(<<JSNull>>))
      [] OTHER -> SyntaxError    \* "", prose, truncated JSON

\* String.prototype.trim on the reply texts of the model
TrimText(text) ==
    CASE text = " [] " -> "[]"
      [] text = "  " -> ""
      [] OTHER -> text

(***************************************************************************)
(* The inputs of a run.                                                    *)
(***************************************************************************)
\* paths
P_xmd == <<"x", ".", "m", "d">>
P_yts == <<"y", ".", "t", "s">>
P_srcats == <<"s", "r", "c", "/", "a", ".", "t", "s">>
DevNull == <<"/", "d", "e", "v", "/", "n", "u", "l", "l">>

\* a change line of a chunk: parse-diff sets ln on an added or deleted line and
\* ln1, ln2 on a context line (0 stands for an absent field)
AddLine(n, text) == [type |-> "add", ln |-> n, ln2 |-> 0, content |-> text]
DelLine(n, text) == [type |-> "del", ln |-> n, ln2 |-> 0, content |-> text]
NormalLine(n1, n2, text) == [type |-> "normal", ln |-> 0, ln2 |-> n2, content |-> text]

Chunk(header, changes) == [content |-> header, changes |-> changes]

\* a file of a parsed diff; hasTo = FALSE is a file whose `to` is undefined
File(path, chunks) == [hasTo |-> TRUE, to |-> path, chunks |-> chunks]
FileNoTo(chunks) == [hasTo |-> FALSE, to |-> <<>>, chunks |-> chunks]

F_xmd == File(P_xmd, <<Chunk("@@ -1,0 +1,1 @@", <<AddLine(1, "+# Title")>>)>>)
F_yts == File(P_yts, <<Chunk("@@ -4,1 +4,2 @@",
                             <<NormalLine(4, 4, " let a;"), AddLine(5, "+let b;")>>)>>)
F_srcats == File(P_srcats, <<Chunk("@@ -1,1 +1,1 @@",
                                   <<DelLine(1, "-var x"), AddLine(1, "+let x")>>),
                             Chunk("@@ -12,0 +12,1 @@", <<AddLine(12, "+f()")>>)>>)
F_deleted == File(DevNull, <<Chunk("@@ -1,1 +0,0 @@", <<DelLine(1, "-gone")>>)>>)
F_noTo == FileNoTo(<<Chunk("@@ -2,0 +2,1 @@", <<AddLine(2, "+z")>>)>>)

\* parseDiff, on the diff texts of the model; text that holds no file header
\* (such as "null") parses to no file
parseDiff(text) ==
    CASE text = "diff x.md y.ts" -> <<F_xmd, F_yts>>
      [] text = "diff deleted" -> <<F_deleted>>
      [] text = "diff deleted y.ts" -> <<F_deleted, F_yts>>
      [] text = "diff src/a.ts" -> <<F_srcats>>
      [] text = "diff noTo y.ts" -> <<F_noTo, F_yts>>
      [] text = "diff y.ts src/a.ts" -> <<F_yts, F_srcats>>
      [] text = "diff x.md deleted src/a.ts" -> <<F_xmd, F_deleted, F_srcats>>
      [] OTHER -> <<>>

\* parseDiff is a library call inside main's try: an exception from it is one
\* of its outcomes
parseDiffThrows(text) == text = "malformed diff"

AllDiffTexts ==
    {"", "malformed diff", "diff x.md y.ts", "diff deleted", "diff deleted y.ts", "diff src/a.ts",
     "diff noTo y.ts", "diff y.ts src/a.ts", "diff x.md deleted src/a.ts"}

DiffTexts == {d \in AllDiffTexts : Len(parseDiff(d)) <= MaxFiles}

\* the event payload: readable = FALSE is a file that is missing, is not JSON
\* or holds no repository
Payload(action, before, after) ==
    [readable |-> TRUE, action |-> action, before |-> before, after |-> after,
     owner |-> "octo", repo |-> "demo", number |-> 7]

Payloads ==
    {[readable |-> FALSE, action |-> "", before |-> "", after |-> "",
      owner |-> "", repo |-> "", number |-> 0],
     Payload("opened", "", ""),
     Payload("synchronize", "c1", "c2"),
     Payload("synchronize", "c2", "c2"),
     Payload("closed", "", ""),
     Payload("edited", "", "")}

\* the "exclude" input: "", "**/*.md", " *.md , y.ts" and "src/**"
ExcludeInputs ==
    {<<>>,
     <<"*", "*", "/", "*", ".", "m", "d">>,
     <<" ", "*", ".", "m", "d", " ", ",", " ", "y", ".", "t", "s">>,
     <<"s", "r", "c", "/", "*", "*">>}

\* what the hosting API answers to pulls.get: an error, or title and body
PRAnswers ==
    {[ok |-> FALSE, title |-> JSNull, body |-> JSNull],
     [ok |-> TRUE, title |-> JSStr("Add b"), body |-> JSNull],
     [ok |-> TRUE, title |-> JSStr("Add b"), body |-> JSStr("adds b")]}

\* what the hosting API answers to a diff request: an error, or data that is
\* null or a diff text
DiffAnswers ==
    {[ok |-> FALSE, data |-> JSNull], [ok |-> TRUE, data |-> JSNull]}
    \cup {[ok |-> TRUE, data |-> JSStr(d)] : d \in DiffTexts}

\* the comparison of a commit with itself holds no change
CompareAnswers(base, head) ==
    {a \in DiffAnswers : (base = head /\ a.ok) => ~Truthy(a.data)}

\* what the completion service answers: an error (ok = FALSE), or a response
\* with its choices, each the content of its message
Choice(content) == [content |-> content]

ReplyTexts ==
    {"", "  ", "LGTM, nothing to improve.", "[{\"lineNumber\":\"12\",\"revi",
     "[]", " [] ",
     "[{\"lineNumber\":\"12\",\"reviewComment\":\"fix this\"}]",
     "[{\"lineNumber\":5,\"reviewComment\":\"rename\"},{\"lineNumber\":5,\"reviewComment\":\"rename\"}]",
     "[{\"lineNumber\":\"abc\",\"reviewComment\":\"typo\",\"severity\":1}]",
     "[{\"lineNumber\":-3,\"reviewComment\":\"off\"}]",
     "[{\"lineNumber\":\"1.5\",\"reviewComment\":\"half\"}]",
     "[{\"reviewComment\":\"where\"}]",
     "{}", "5", "0", "\"ok\"", "null", "[null]"}

CompletionAnswers ==
    {[ok |-> FALSE, err |-> e, choices |-> <<>>] : e \in {"auth", "network", "rateLimit"}}
    \cup {[ok |-> TRUE, err |-> "", choices |-> <<>>],
          [ok |-> TRUE, err |-> "", choices |-> <<Choice(JSNull)>>]}
    \cup {[ok |-> TRUE, err |-> "", choices |-> <<Choice(JSStr(t))>>] : t \in ReplyTexts}

\* what the hosting API answers to pulls.createReview
ReviewAnswers == {[ok |-> TRUE], [ok |-> FALSE]}

(***************************************************************************)
(* The functions of main.ts.                                               *)
(***************************************************************************)
\* the result of a call: a returned value, or a thrown exception
Returned(v) == [threw |-> FALSE, value |-> v]
Thrown == [threw |-> TRUE, value |-> JSUndefined]

\* createPrompt: the parts of the prompt that depend on its arguments
createPrompt(file, chunk, details) ==
    [to |-> IF file.hasTo THEN file.to ELSE <<"undefined">>,
     title |-> details.title,
     description |-> details.description,
     content |-> chunk.content,
     changes |-> [i \in 1..Len(chunk.changes) |->
                    <<IF chunk.changes[i].ln # 0 THEN chunk.changes[i].ln
                                                 ELSE chunk.changes[i].ln2,
                      chunk.changes[i].content>>]]

\* getAIResponse, lines 172-196: the body of its try block
getAIResponseTry(answer) ==
    IF ~answer.ok THEN Thrown                      \* the request fails
    ELSE IF Len(answer.choices) = 0 THEN Thrown    \* choices[0].message of undefined
    ELSE LET content == answer.choices[1].content
             trimmed == IF content.t = "str" THEN JSStr(TrimText(content.s))
                                             ELSE JSUndefined
             res == IF Truthy(trimmed) THEN trimmed.s ELSE "[]"
             parsed == JSONParse(res)
         IN  IF parsed.ok THEN Returned(parsed.value) ELSE Thrown

getAIResponse_NoCatch(answer) == getAIResponseTry(answer)

\* getAIResponse: the try block, and null from its catch
getAIResponse(answer) ==
    LET r == getAIResponseTry(answer)
    IN  IF r.threw THEN Returned(JSNull) ELSE r

CommentOf_NoPathCheck(file, suggestion) ==
    IF PropertyThrows(suggestion) THEN Thrown
    ELSE Returned(<<[body |-> "[GPT-REVIEW] " \o ToText(Property(suggestion, "reviewComment")),
                     path |-> file.to,
                     line |-> Number(Property(suggestion, "lineNumber"))]>>)

\* createComment's callback: [] for a file without a target path
CommentOf(file, suggestion) ==
    IF ~file.hasTo \/ file.to = <<>> THEN Returned(<<>>)
    ELSE IF PropertyThrows(suggestion) THEN Thrown
    ELSE Returned(<<[body |-> "[GPT-REVIEW] " \o ToText(Property(suggestion, "reviewComment")),
                     path |-> file.to,
                     line |-> Number(Property(suggestion, "lineNumber"))]>>)

RECURSIVE FlatMapComments_Dedup(_, _)
FlatMapComments_Dedup(file, items) ==
    IF items = <<>> THEN Returned(<<>>)
    ELSE LET first == CommentOf(file, Head(items))
             rest == FlatMapComments_Dedup(file, Tail(items))
         IN  IF first.threw \/ rest.threw THEN Thrown
             ELSE IF \E i \in 1..Len(rest.value) : <<rest.value[i]>> = first.value
                  THEN Returned(rest.value)
                  ELSE Returned(first.value \o rest.value)

RECURSIVE FlatMapComments(_, _)
FlatMapComments(file, items) ==
    IF items = <<>> THEN Returned(<<>>)
    ELSE LET first == CommentOf(file, Head(items))
             rest == FlatMapComments(file, Tail(items))
         IN  IF first.threw \/ rest.threw THEN Thrown
             ELSE Returned(first.value \o rest.value)

\* createComment: flatMap is a method of arrays only
createComment(file, chunk, aiResponses) ==
    IF aiResponses.t # "arr" THEN Thrown
    ELSE FlatMapComments(file, aiResponses.items)

\* main, lines 288-291
excludePatterns(input) ==
    LET parts == Split(input, ",")
    IN  [i \in 1..Len(parts) |-> Trim(parts[i])]

shouldInclude_KeepAll(file, patterns) == TRUE

\* main, lines 295-297
shouldInclude(file, patterns) ==
    ~\E i \in 1..Len(patterns) :
        minimatch(IF file.hasTo THEN file.to ELSE <<>>, patterns[i])

\* main, lines 294-300: Array.prototype.filter
RECURSIVE filterDiff(_, _)
filterDiff(files, patterns) ==
    IF files = <<>> THEN <<>>
    ELSE (IF shouldInclude(Head(files), patterns) THEN <<Head(files)>> ELSE <<>>)
         \o filterDiff(Tail(files), patterns)

isDeleted_OrNoPath(file) == ~file.hasTo \/ file.to = DevNull

isDeleted_Never(file) == FALSE

\* analyzeCode, line 85
isDeleted(file) == file.hasTo /\ file.to = DevNull

\* analyzeCode, lines 83-90: the next chunk the loops reach from file i, chunk j;
\* <<0, 0>> when the loops end
RECURSIVE nextChunk(_, _, _)
nextChunk(files, i, j) ==
    IF i > Len(files) THEN <<0, 0>>
    ELSE IF isDeleted(files[i]) \/ j > Len(files[i].chunks)
         THEN nextChunk(files, i + 1, 1)
         ELSE <<i, j>>

(***************************************************************************)
(* The requests to the external services.                                  *)
(***************************************************************************)
PullsGetRequest(p, format) ==
    [api |-> "pulls.get", format |-> format,
     owner |-> p.owner, repo |-> p.repo, pull_number |-> p.number]

CompareCommitsRequest(details, base, head) ==
    [api |-> "repos.compareCommits", owner |-> details.owner,
     repo |-> details.repo, base |-> base, head |-> head]

CompletionRequest(prompt) ==
    [api |-> "chat.completions.create", role |-> "system", content |-> prompt]

CreateReviewRequest(details, cs) ==
    [api |-> "pulls.createReview", owner |-> details.owner, repo |-> details.repo,
     pull_number |-> details.pull_number, comments |-> cs, event |-> "COMMENT"]

(***************************************************************************)
(* The run.  A step of main() is computed as a record of the variables it  *)
(* writes, from the record of their current values.                        *)
(***************************************************************************)
Now ==
    [pc |-> pc, stage |-> stage, fi |-> fi, ci |-> ci, comments |-> comments,
     calls |-> calls, terminal |-> terminal, exitCode |-> exitCode]

Becomes(r) ==
    /\ pc' = r.pc
    /\ stage' = r.stage
    /\ fi' = r.fi
    /\ ci' = r.ci
    /\ comments' = r.comments
    /\ calls' = r.calls
    /\ terminal' = r.terminal
    /\ exitCode' = r.exitCode

Fails_Swallowed(r) == [r EXCEPT !.pc = "done", !.terminal = "Skipped", !.exitCode = 0]

Fails_ExitZero(r) == [r EXCEPT !.pc = "done", !.terminal = "Failed", !.exitCode = 0]

\* main, lines 318-321 and 324-327: an exception ends the process with code 1
Fails(r) == [r EXCEPT !.pc = "done", !.terminal = "Failed", !.exitCode = 1]

Skips_WithError(r) == [r EXCEPT !.pc = "done", !.terminal = "Skipped", !.exitCode = 1]

\* main returns without a submission: lines 276, 281, 316
Skips(r) == [r EXCEPT !.pc = "done", !.terminal = "Skipped", !.exitCode = 0]

hasComments_Always(cs) == TRUE

\* main, line 306
hasComments(cs) == Len(cs) > 0

\* main, lines 304-317: after analyzeCode has returned cs
afterAnalysis(r, cs, details) ==
    IF hasComments(cs)
    THEN [r EXCEPT !.pc = "awaitReview", !.stage = "Analyzed", !.comments = cs,
                   !.calls = Append(r.calls, CreateReviewRequest(details, cs))]
    ELSE Skips([r EXCEPT !.stage = "Analyzed", !.comments = cs])

analyzeFrom_Concurrent(r, files, i, j, cs, details) ==
    LET pos == nextChunk(files, i, j)
        more == IF pos = <<0, 0>> THEN pos ELSE nextChunk(files, pos[1], pos[2] + 1)
        first == Append(r.calls, CompletionRequest(
                     createPrompt(files[pos[1]], files[pos[1]].chunks[pos[2]], details)))
    IN  IF pos # <<0, 0>>
        THEN [r EXCEPT !.pc = "awaitCompletion", !.stage = "Filtered",
                       !.fi = pos[1], !.ci = pos[2], !.comments = cs,
                       !.calls = IF more = <<0, 0>> THEN first
                                 ELSE Append(first, CompletionRequest(
                                     createPrompt(files[more[1]],
                                                  files[more[1]].chunks[more[2]],
                                                  details)))]
        ELSE afterAnalysis(r, cs, details)

analyzeFrom_ReviewPerChunk(r, files, i, j, cs, details) ==
    LET pos == nextChunk(files, i, j)
        sent == IF hasComments(cs)
                THEN Append(r.calls, CreateReviewRequest(details, cs))
                ELSE r.calls
    IN  IF pos # <<0, 0>>
        THEN [r EXCEPT !.pc = "awaitCompletion", !.stage = "Filtered",
                       !.fi = pos[1], !.ci = pos[2], !.comments = cs,
                       !.calls = Append(sent, CompletionRequest(
                           createPrompt(files[pos[1]], files[pos[1]].chunks[pos[2]],
                                        details)))]
        ELSE afterAnalysis(r, cs, details)

\* analyzeCode, lines 83-93 and 106-107: the loops go on from file i, chunk j
\* with the accumulator cs, up to the next completion request or to their end
analyzeFrom(r, files, i, j, cs, details) ==
    LET pos == nextChunk(files, i, j)
    IN  IF pos # <<0, 0>>
        THEN [r EXCEPT !.pc = "awaitCompletion", !.stage = "Filtered",
                       !.fi = pos[1], !.ci = pos[2], !.comments = cs,
                       !.calls = Append(r.calls, CompletionRequest(
                           createPrompt(files[pos[1]], files[pos[1]].chunks[pos[2]],
                                        details)))]
        ELSE afterAnalysis(r, cs, details)

push_Front(cs, newComments) == newComments \o cs

\* analyzeCode, line 100: comments.push(...newComments)
push(cs, newComments) == cs \o newComments

hasResponse_Unchecked(v) == TRUE

\* analyzeCode, line 96
hasResponse(v) == Truthy(v)

\* analyzeCode, lines 94-102: getAIResponse has returned v for the chunk at
\* (fi, ci); then the loops go on
afterAIResponse(r, v) ==
    IF hasResponse(v)
    THEN LET newComments == createComment(filteredDiff[fi], filteredDiff[fi].chunks[ci], v)
         IN  IF newComments.threw THEN Fails(r)
             ELSE analyzeFrom(r, filteredDiff, fi, ci + 1,
                              push(comments, newComments.value), prDetails)
    ELSE analyzeFrom(r, filteredDiff, fi, ci + 1, comments, prDetails)

NoDetails == [owner |-> "", repo |-> "", pull_number |-> 0, title |-> "", description |-> ""]
NoAnswer == [ok |-> FALSE, err |-> "", choices |-> <<>>]
NoDiffAnswer == [ok |-> FALSE, data |-> JSUndefined]

\* an answer received: the request it answers, and whether it is a success
Answered(api, ok) == [api |-> api, ok |-> ok]

Init ==
    /\ payload \in Payloads
    /\ excludeInput \in ExcludeInputs
    /\ pc = "start"
    /\ stage = "Init"
    /\ prDetails = NoDetails
    /\ diffResponse = NoDiffAnswer
    /\ diff = JSUndefined
    /\ parsedDiff = [set |-> FALSE, files |-> <<>>]
    /\ filteredDiff = <<>>
    /\ fi = 0
    /\ ci = 0
    /\ response = NoAnswer
    /\ aiResponse = JSUndefined
    /\ comments = <<>>
    /\ calls = <<>>
    /\ answers = <<>>
    /\ terminal = "none"
    /\ exitCode = -1

\* main, line 241, and getPRDetails, lines 44-51: read the payload, ask for the
\* pull request
GetPRDetails ==
    /\ pc = "start"
    /\ IF payload.readable
       THEN Becomes([Now EXCEPT !.pc = "awaitPRDetails",
                                !.calls = Append(calls, PullsGetRequest(payload, "json"))])
       ELSE Becomes(Fails(Now))
    /\ UNCHANGED <<payload, excludeInput, prDetails, diffResponse, diff, parsedDiff,
                   filteredDiff, response, aiResponse, answers>>

\* getPRDetails, lines 52-58
detailsOf(p, answer) ==
    [owner |-> p.owner, repo |-> p.repo, pull_number |-> p.number,
     title |-> IF answer.title.t = "str" THEN answer.title.s ELSE "",
     description |-> IF answer.body.t = "str" THEN answer.body.s ELSE ""]

eventBranch_SwappedCommits(r, p, details) ==
    CASE p.action = "opened" ->
            [r EXCEPT !.pc = "awaitDiff", !.stage = "ContextResolved",
                      !.calls = Append(r.calls, PullsGetRequest(p, "diff"))]
      [] p.action = "synchronize" ->
            [r EXCEPT !.pc = "awaitCompare", !.stage = "ContextResolved",
                      !.calls = Append(r.calls,
                          CompareCommitsRequest(details, p.after, p.before))]
      [] OTHER -> [r EXCEPT !.pc = "done", !.terminal = "Skipped", !.exitCode = 0,
                            !.stage = "ContextResolved"]

eventBranch_DefaultOpened(r, p, details) ==
    IF p.action = "synchronize"
    THEN [r EXCEPT !.pc = "awaitCompare", !.stage = "ContextResolved",
                   !.calls = Append(r.calls,
                       CompareCommitsRequest(details, p.before, p.after))]
    ELSE [r EXCEPT !.pc = "awaitDiff", !.stage = "ContextResolved",
                   !.calls = Append(r.calls, PullsGetRequest(p, "diff"))]

\* main, lines 250-277: the branch on the kind of the event
eventBranch(r, p, details) ==
    CASE p.action = "opened" ->
            [r EXCEPT !.pc = "awaitDiff", !.stage = "ContextResolved",
                      !.calls = Append(r.calls, PullsGetRequest(p, "diff"))]
      [] p.action = "synchronize" ->
            [r EXCEPT !.pc = "awaitCompare", !.stage = "ContextResolved",
                      !.calls = Append(r.calls,
                          CompareCommitsRequest(details, p.before, p.after))]
      [] OTHER -> Skips([r EXCEPT !.stage = "ContextResolved"])

\* the pull request request answers; main, lines 242-277
PRDetailsAnswer ==
    /\ pc = "awaitPRDetails"
    /\ \E answer \in PRAnswers :
        /\ answers' = Append(answers, Answered("pulls.get", answer.ok))
        /\ IF answer.ok
           THEN /\ prDetails' = detailsOf(payload, answer)
                /\ Becomes(eventBranch(Now, payload, detailsOf(payload, answer)))
           ELSE /\ prDetails' = prDetails
                /\ Becomes(Fails(Now))
    /\ UNCHANGED <<payload, excludeInput, diffResponse, diff, parsedDiff, filteredDiff,
                   response, aiResponse>>

\* main, lines 279-303: with the diff d of either branch, up to the first
\* completion request or to the end of the run
WithDiff(d) ==
    /\ diff' = d
    /\ IF ~Truthy(d)
       THEN /\ Becomes(Skips(Now))
            /\ UNCHANGED <<parsedDiff, filteredDiff>>
       ELSE IF parseDiffThrows(d.s)
       THEN /\ Becomes(Fails([Now EXCEPT !.stage = "DiffObtained"]))
            /\ UNCHANGED <<parsedDiff, filteredDiff>>
       ELSE LET files == parseDiff(d.s)
                kept == filterDiff(files, excludePatterns(excludeInput))
            IN  /\ parsedDiff' = [set |-> TRUE, files |-> files]
                /\ filteredDiff' = kept
                /\ Becomes(analyzeFrom([Now EXCEPT !.stage = "Filtered"],
                                       kept, 1, 1, <<>>, prDetails))

\* getDiff, lines 66-73, answers; main, line 252
DiffAnswer ==
    /\ pc = "awaitDiff"
    /\ \E answer \in DiffAnswers :
        /\ diffResponse' = answer
        /\ answers' = Append(answers, Answered("pulls.get", answer.ok))
        /\ IF answer.ok
           THEN WithDiff(answer.data)
           ELSE /\ Becomes(Fails(Now))
                /\ UNCHANGED <<diff, parsedDiff, filteredDiff>>
    /\ UNCHANGED <<payload, excludeInput, prDetails, response, aiResponse>>

\* compareCommits answers; main, line 273
CompareAnswer ==
    /\ pc = "awaitCompare"
    /\ \E answer \in CompareAnswers(payload.before, payload.after) :
        /\ diffResponse' = answer
        /\ answers' = Append(answers, Answered("repos.compareCommits", answer.ok))
        /\ IF answer.ok
           THEN WithDiff(JSStr(ToText(answer.data)))
           ELSE /\ Becomes(Fails(Now))
                /\ UNCHANGED <<diff, parsedDiff, filteredDiff>>
    /\ UNCHANGED <<payload, excludeInput, prDetails, response, aiResponse>>

\* the completion service answers; getAIResponse, lines 179-200, and
\* analyzeCode, lines 93-107
CompletionAnswer ==
    /\ pc = "awaitCompletion"
    /\ \E answer \in CompletionAnswers :
        LET result == getAIResponse(answer)
        IN  /\ response' = answer
            /\ answers' = Append(answers, Answered("chat.completions.create", answer.ok))
            /\ IF result.threw
               THEN /\ aiResponse' = aiResponse
                    /\ Becomes(Fails(Now))
               ELSE /\ aiResponse' = result.value
                    /\ Becomes(afterAIResponse(Now, result.value))
    /\ UNCHANGED <<payload, excludeInput, prDetails, diffResponse, diff, parsedDiff,
                   filteredDiff>>

\* createReview answers; createReviewComment, lines 229-235, and main, line 314
ReviewAnswer ==
    /\ pc = "awaitReview"
    /\ \E answer \in ReviewAnswers :
        /\ answers' = Append(answers, Answered("pulls.createReview", answer.ok))
        /\ IF answer.ok
           THEN Becomes([Now EXCEPT !.pc = "done", !.terminal = "Submitted",
                                    !.exitCode = 0])
           ELSE Becomes(Fails(Now))
    /\ UNCHANGED <<payload, excludeInput, prDetails, diffResponse, diff, parsedDiff,
                   filteredDiff, response, aiResponse>>

Next ==
    \/ GetPRDetails
    \/ PRDetailsAnswer
    \/ DiffAnswer
    \/ CompareAnswer
    \/ CompletionAnswer
    \/ ReviewAnswer

Spec == Init /\ [][Next]_vars

\* the run when every external call returns or fails in the end: the
\* continuation of an await runs once its promise is settled, and main's own
\* first step runs when the process starts
FairSpec == Spec /\ WF_vars(Next)

(***************************************************************************)
(* What the claims speak of.                                               *)
(***************************************************************************)
\* a ReviewSuggestion, and a list of them
IsSuggestion(v) ==
    v.t = "obj" /\ {"lineNumber", "reviewComment"} \subseteq DOMAIN v.f

IsSuggestionList(v) ==
    v.t = "arr" /\ \A i \in 1..Len(v.items) : IsSuggestion(v.items[i])

\* the completion service answered with a text
HasReplyText(answer) ==
    answer.ok /\ Len(answer.choices) > 0 /\ answer.choices[1].content.t = "str"

ReplyText(answer) == TrimText(answer.choices[1].content.s)

\* the reply is a JSON array of {lineNumber, reviewComment} objects
WellFormedReply(answer) ==
    /\ HasReplyText(answer)
    /\ JSONParse(ReplyText(answer)).ok
    /\ IsSuggestionList(JSONParse(ReplyText(answer)).value)

\* the call failed, or its reply is a text (not empty) that is not JSON
FailedOrUnparseable(answer) ==
    \/ ~answer.ok
    \/ Len(answer.choices) = 0
    \/ (HasReplyText(answer) /\ ReplyText(answer) # ""
        /\ ~JSONParse(ReplyText(answer)).ok)

CallsTo(api) == {i \in 1..Len(calls) : calls[i].api = api}

\* C1: a chunk whose completion call fails, or whose reply is not a JSON array
\* of {lineNumber, reviewComment} objects, adds no comment, does not end the
\* run as a failing run, and the loops go on with the next chunk.
C1_MalformedReplyRecovered ==
    [][(pc = "awaitCompletion" /\ ~WellFormedReply(response'))
        => /\ comments' = comments
           /\ terminal' # "Failed"
           /\ Becomes(analyzeFrom(Now, filteredDiff, fi, ci + 1, comments, prDetails))]_vars

\* C2: what getAIResponse returns is null or a list of ReviewSuggestion
\* (aiResponse is undefined until its first return).
C2_ReturnsNullOrSuggestionList ==
    aiResponse.t = "undefined" \/ aiResponse = JSNull \/ IsSuggestionList(aiResponse)

\* C3: when the completion call fails or its reply text is not JSON,
\* getAIResponse returns null and the step does not end the run as failing.
C3_NoExceptionEscapes ==
    [][(pc = "awaitCompletion" /\ FailedOrUnparseable(response'))
        => /\ aiResponse' = JSNull
           /\ terminal' # "Failed"
           /\ exitCode' # 1]_vars

\* a completion call failed for the last chunk, and the run goes on to submit
\* the comments of the chunks before it
C3_Witness ==
    /\ FailedOrUnparseable(response)
    /\ aiResponse = JSNull
    /\ pc = "awaitReview"
    /\ Len(comments) > 0

\* C4: a chunk for which getAIResponse returns null leaves the accumulator as
\* it is, and the run goes on exactly as after an empty list: same next
\* request, same comments, same position.
C4_NullChunkIsolated ==
    [][(pc = "awaitCompletion" /\ response' \in CompletionAnswers
        /\ getAIResponse(response') = Returned(JSNull))
        => /\ comments' = comments
           /\ Becomes(afterAIResponse(Now, JSArr(<<>>)))]_vars

\* null for the second chunk of three: the comments of the first are kept and
\* the request for the third is sent
C4_Witness ==
    /\ aiResponse = JSNull
    /\ pc = "awaitCompletion"
    /\ Len(comments) > 0
    /\ Cardinality(CallsTo("chat.completions.create")) = 3

Reviews == CallsTo("pulls.createReview")
Completions == CallsTo("chat.completions.create")

\* C5: at most one createReview request in a run; there is one exactly when
\* analyzeCode has returned a non-empty list; it is the last request of the
\* run, carries the whole list and the event COMMENT; an empty list ends the
\* run as Skipped with no such request.
C5_SingleSubmission ==
    /\ Cardinality(Reviews) <= 1
    /\ (Reviews # {}) <=> (stage = "Analyzed" /\ Len(comments) > 0)
    /\ \A i \in Reviews :
        /\ i = Len(calls)
        /\ calls[i].comments = comments
        /\ calls[i].event = "COMMENT"
    /\ (stage = "Analyzed" /\ comments = <<>>) => terminal = "Skipped"
    /\ terminal = "Skipped" => Reviews = {}
    /\ terminal = "Submitted" => Reviews # {}

\* a run that has submitted the comments of several chunks at once
C5_Witness ==
    /\ terminal = "Submitted"
    /\ Len(comments) >= 3
    /\ Cardinality(Completions) >= 2

\* the exclude patterns of the run, and the paths they match
Patterns == excludePatterns(excludeInput)
MatchesExclude(path) == \E i \in 1..Len(Patterns) : minimatch(path, Patterns[i])
Excluded(file) == file.hasTo /\ MatchesExclude(file.to)

\* the prompts of the chunks of a file
PromptsOf(file) ==
    {createPrompt(file, file.chunks[j], prDetails) : j \in 1..Len(file.chunks)}

\* C6: no file whose target path matches an exclude pattern is handed to
\* analyzeCode, no prompt of a chunk of such a file is sent to the completion
\* service, and no comment, accumulated or submitted, has a path that matches
\* an exclude pattern.
C6_ExcludedNeverAnalyzed ==
    /\ \A i \in 1..Len(filteredDiff) : ~Excluded(filteredDiff[i])
    /\ \A k \in 1..Len(parsedDiff.files) :
        Excluded(parsedDiff.files[k]) =>
            \A i \in Completions : calls[i].content \notin PromptsOf(parsedDiff.files[k])
    /\ \A i \in 1..Len(comments) : ~MatchesExclude(comments[i].path)
    /\ \A i \in Reviews :
        \A j \in 1..Len(calls[i].comments) : ~MatchesExclude(calls[i].comments[j].path)

\* a diff with an excluded file and a file that is kept, reviewed and submitted
C6_Witness ==
    /\ \E k \in 1..Len(parsedDiff.files) : Excluded(parsedDiff.files[k])
    /\ Len(filteredDiff) > 0
    /\ terminal = "Submitted"

OnlyDeletedFiles(files) ==
    files # <<>> /\ \A k \in 1..Len(files) : files[k].hasTo /\ files[k].to = DevNull

\* C7: no prompt is sent for a chunk of a file whose target path is
\* "/dev/null", and a diff of deleted files only ends with no comment, no
\* completion request and no createReview request.
C7_DeletedFilesSkipped ==
    /\ \A i \in Completions : calls[i].content.to # DevNull
    /\ \A k \in 1..Len(parsedDiff.files) :
        (parsedDiff.files[k].hasTo /\ parsedDiff.files[k].to = DevNull) =>
            \A i \in Completions : calls[i].content \notin PromptsOf(parsedDiff.files[k])
    /\ (parsedDiff.set /\ OnlyDeletedFiles(parsedDiff.files)) =>
        /\ comments = <<>>
        /\ Completions = {}
        /\ Reviews = {}
        /\ terminal = "Skipped"

\* a diff of one deleted file reached analyzeCode, and the run was skipped
C7_Witness ==
    /\ OnlyDeletedFiles(filteredDiff)
    /\ stage = "Analyzed"
    /\ terminal = "Skipped"

\* the event is of a kind other than "opened" and "synchronize"
UnsupportedEvent ==
    payload.readable /\ payload.action \notin {"opened", "synchronize"}

\* nothing but the pull request request was sent, and no diff was parsed
NoActionTaken ==
    /\ \A i \in 1..Len(calls) : calls[i].api = "pulls.get" /\ calls[i].format = "json"
    /\ Len(calls) <= 1
    /\ ~parsedDiff.set

\* C8, as stated: a run for an unsupported event ends as Skipped, with no
\* diff request, comparison, completion request or createReview request.
C8_UnsupportedEndsSkipped ==
    (UnsupportedEvent /\ pc = "done") => (terminal = "Skipped" /\ NoActionTaken)

\* C8, amended: a run for an unsupported event sends no diff request,
\* comparison, completion request or createReview request; it ends as Skipped
\* when the pull request request succeeded, and as a failing run when it
\* failed.
C8_UnsupportedTakesNoAction ==
    UnsupportedEvent =>
        /\ NoActionTaken
        /\ pc \in {"start", "awaitPRDetails", "done"}
        /\ pc = "done" =>
            \/ (stage = "ContextResolved" /\ terminal = "Skipped")
            \/ (stage = "Init" /\ terminal = "Failed")

\* a run for a "closed" event has ended as Skipped
C8_Witness ==
    /\ UnsupportedEvent
    /\ payload.action = "closed"
    /\ terminal = "Skipped"
    /\ Len(calls) = 1

\* C9, as stated: a run for an unsupported event ends with exit code 0,
\* whatever the pull request request answers.
C9_UnsupportedExitsZero ==
    (UnsupportedEvent /\ pc = "done") => exitCode = 0

\* C9, amended: a run for an unsupported event ends with exit code 0 when the
\* pull request request succeeded, and with exit code 1 when it failed.
C9_UnsupportedExitsZeroAfterDetails ==
    (UnsupportedEvent /\ pc = "done") =>
        /\ exitCode \in {0, 1}
        /\ (exitCode = 0) <=> (prDetails # NoDetails)

\* a run for an "edited" event has ended with exit code 0
C9_Witness ==
    /\ UnsupportedEvent
    /\ payload.action = "edited"
    /\ pc = "done"
    /\ prDetails.title = "Add b"
    /\ exitCode = 0

\* C10: when the answer to the diff request, of either branch, holds null or
\* empty data, the run ends as Skipped with exit code 0, no diff parsed, no
\* completion request and no createReview request.
C10_EmptyDiffSkips ==
    (diffResponse.ok /\ ~Truthy(diffResponse.data)) =>
        /\ terminal = "Skipped"
        /\ exitCode = 0
        /\ ~parsedDiff.set
        /\ Completions = {}
        /\ Reviews = {}

\* a number that is an integer and not negative
IsNonNegativeInteger(v) == v.t = "num" /\ v.d = 1 /\ v.n >= 0

\* C11: the line of every comment, accumulated or submitted, is a
\* non-negative integer.
C11_LinesAreNonNegativeIntegers ==
    /\ \A i \in 1..Len(comments) : IsNonNegativeInteger(comments[i].line)
    /\ \A i \in Reviews :
        \A j \in 1..Len(calls[i].comments) :
            IsNonNegativeInteger(calls[i].comments[j].line)

\* the comments a step has added to the accumulator
Added == {i \in 1..Len(comments') : i > Len(comments)}

\* C12: the path of every comment, accumulated or submitted, is not empty, is
\* not "/dev/null" and is the target path of the file whose chunk the comment
\* was made for; a file with no target path adds no comment.
C12_PathsAreOwnersTargetPaths ==
    /\ [](\A i \in 1..Len(comments) :
            /\ comments[i].path # <<>>
            /\ comments[i].path # DevNull
            /\ \E k \in 1..Len(filteredDiff) :
                filteredDiff[k].hasTo /\ filteredDiff[k].to = comments[i].path)
    /\ [](\A i \in Reviews : \A j \in 1..Len(calls[i].comments) :
            calls[i].comments[j].path \notin {<<>>, DevNull})
    /\ [][pc = "awaitCompletion" =>
            \A i \in Added :
                /\ filteredDiff[fi].hasTo
                /\ filteredDiff[fi].to # <<>>
                /\ comments'[i].path = filteredDiff[fi].to]_vars

\* a list of suggestions came back for the chunk of a file with no target
\* path; no comment was added and the next file is being reviewed
C12_Witness ==
    /\ pc = "awaitCompletion"
    /\ fi = 2
    /\ ~filteredDiff[1].hasTo
    /\ aiResponse.t = "arr"
    /\ Len(aiResponse.items) > 0
    /\ comments = <<>>

\* a lineNumber that has an integer value: an integer, or the text of one
IntegerTexts == {"5", "12"}
HasIntegerValue(v) ==
    \/ (v.t = "num" /\ v.d = 1)
    \/ (v.t = "str" /\ v.s \in IntegerTexts)

IntegerValue(v) ==
    IF v.t = "num" THEN v
    ELSE CASE v.s = "5" -> JSInt(5) [] v.s = "12" -> JSInt(12)

\* the reply is a list of suggestions, each with a text as reviewComment and a
\* lineNumber that has an integer value
IsReviewSuggestionList(v) ==
    /\ IsSuggestionList(v)
    /\ \A i \in 1..Len(v.items) :
        /\ v.items[i].f.reviewComment.t = "str"
        /\ HasIntegerValue(v.items[i].f.lineNumber)

\* the comments the claim expects for a list of suggestions and a target path
ExpectedComments(path, v) ==
    [i \in 1..Len(v.items) |->
        [body |-> "[GPT-REVIEW] " \o v.items[i].f.reviewComment.s,
         path |-> path,
         line |-> IntegerValue(v.items[i].f.lineNumber)]]

\* C13: for a file with a target path and a reply that is a list of k
\* suggestions, the chunk adds exactly k comments, in the order of the reply,
\* the i-th with the body "[GPT-REVIEW] " + reviewComment, the path of the
\* file and the integer value of lineNumber; duplicates are kept and no line
\* is checked against the chunk.
C13_OneCommentPerSuggestion ==
    [][(/\ pc = "awaitCompletion"
        /\ filteredDiff[fi].hasTo
        /\ filteredDiff[fi].to # <<>>
        /\ aiResponse' = getAIResponse(response').value
        /\ IsReviewSuggestionList(aiResponse'))
        => comments' = comments \o ExpectedComments(filteredDiff[fi].to, aiResponse')]_vars

\* the reply [{"lineNumber":"12","reviewComment":"fix this"}] for the second
\* chunk of src/a.ts, after a reply of two equal suggestions for the first
C13_Witness ==
    /\ comments = <<[body |-> "[GPT-REVIEW] rename", path |-> P_srcats, line |-> JSInt(5)],
                    [body |-> "[GPT-REVIEW] rename", path |-> P_srcats, line |-> JSInt(5)],
                    [body |-> "[GPT-REVIEW] fix this", path |-> P_srcats, line |-> JSInt(12)]>>
    /\ filteredDiff = <<F_srcats>>
    /\ pc = "awaitReview"

IsPrefix(s, t) == Len(s) <= Len(t) /\ SubSeq(t, 1, Len(s)) = s

\* position <<i, j>> of the loops comes before position <<k, l>>
Before(i, j, k, l) == i < k \/ (i = k /\ j < l)

\* C14: every step leaves the accumulator as it was or extends it at its end;
\* a step of the loops extends it by the comments of the chunk just answered,
\* in the order of the reply, and moves on to a later chunk in diff order; the
\* list submitted is the accumulator.
C14_AccumulatorGrowsInDiffOrder ==
    /\ [][IsPrefix(comments, comments')]_vars
    /\ [][pc = "awaitCompletion" =>
            /\ (terminal' # "Failed" /\ aiResponse'.t = "arr") =>
                comments' = comments \o
                    createComment(filteredDiff[fi], filteredDiff[fi].chunks[ci],
                                  aiResponse').value
            /\ (terminal' = "Failed" \/ aiResponse'.t # "arr") => comments' = comments
            /\ pc' = "awaitCompletion" => Before(fi, ci, fi', ci')]_vars
    /\ [](\A i \in Reviews : calls[i].comments = comments)

\* the comments of a chunk of y.ts, then those of a chunk of src/a.ts, submitted
C14_Witness ==
    /\ terminal = "Submitted"
    /\ Len(comments) >= 2
    /\ comments[1].path = P_yts
    /\ comments[Len(comments)].path = P_srcats

HostingApis == {"pulls.get", "repos.compareCommits", "pulls.createReview"}

\* the run has ended as a failing run and its last request is the last one
\* answered
FailedFast ==
    /\ pc = "done"
    /\ terminal = "Failed"
    /\ exitCode = 1
    /\ Len(calls) = Len(answers)

\* C15: an unreadable payload, a failed answer of the hosting API (pull
\* request, diff, comparison, createReview) or a failure of parseDiff ends the
\* run as a failing run with exit code 1; no request follows the failure (no
\* retry, no later createReview), and nothing runs after the run has ended.
C15_UpstreamFailuresFailFast ==
    /\ []((~payload.readable /\ pc # "start") => (FailedFast /\ calls = <<>>))
    /\ [](\A i \in 1..Len(answers) :
            /\ answers[i].api = calls[i].api
            /\ (answers[i].api \in HostingApis /\ ~answers[i].ok) =>
                (i = Len(answers) /\ FailedFast))
    /\ []((diff.t = "str" /\ diff.s # "" /\ parseDiffThrows(diff.s)) =>
            (FailedFast /\ ~parsedDiff.set /\ Completions = {} /\ Reviews = {}))
    /\ [][terminal = "none"]_vars

\* createReview failed: the run has ended as a failing run
C15_Witness ==
    /\ answers # <<>>
    /\ answers[Len(answers)] = Answered("pulls.createReview", FALSE)
    /\ terminal = "Failed"
    /\ exitCode = 1

DiffRequests == {i \in CallsTo("pulls.get") : calls[i].format = "diff"}
Comparisons == CallsTo("repos.compareCommits")

\* the comparisons are of the event's before commit with its after commit
ComparesBeforeWithAfter ==
    \A i \in Comparisons :
        calls[i].base = payload.before /\ calls[i].head = payload.after

\* C16, as stated: a run for "opened" sends exactly one diff request and no
\* comparison; a run for "synchronize" sends exactly one comparison, of the
\* before commit with the after commit, and no diff request.
C16_DiffFetchedOnce ==
    (payload.readable /\ pc = "done") =>
        /\ payload.action = "opened" =>
            (Cardinality(DiffRequests) = 1 /\ Comparisons = {})
        /\ payload.action = "synchronize" =>
            (Cardinality(Comparisons) = 1 /\ ComparesBeforeWithAfter
             /\ DiffRequests = {})

\* C16, amended: a run for "opened" sends no comparison and, once the pull
\* request request has succeeded, exactly one diff request; a run for
\* "synchronize" sends no diff request and, once the pull request request has
\* succeeded, exactly one comparison, of the before commit with the after
\* commit; a run whose pull request request fails sends neither.
C16_DiffFetchedOnceAfterDetails ==
    /\ payload.action = "opened" =>
        /\ Comparisons = {}
        /\ Cardinality(DiffRequests) = (IF stage = "Init" THEN 0 ELSE 1)
    /\ payload.action = "synchronize" =>
        /\ DiffRequests = {}
        /\ Cardinality(Comparisons) = (IF stage = "Init" THEN 0 ELSE 1)
        /\ ComparesBeforeWithAfter
    /\ payload.action \notin {"opened", "synchronize"} =>
        (DiffRequests = {} /\ Comparisons = {})

\* a run for "synchronize" has compared c1 with c2 and submitted its review
C16_Witness ==
    /\ payload.action = "synchronize"
    /\ terminal = "Submitted"
    /\ \E i \in Comparisons : calls[i].base = "c1" /\ calls[i].head = "c2"

\* the place of a state of the orchestrator in the order Init, ContextResolved,
\* DiffObtained, Filtered, Analyzed, terminal
Rank(st, term) ==
    IF term # "none" THEN 5
    ELSE CASE st = "Init" -> 0
           [] st = "ContextResolved" -> 1
           [] st = "DiffObtained" -> 2
           [] st = "Filtered" -> 3
           [] st = "Analyzed" -> 4

MetadataRequests == {i \in CallsTo("pulls.get") : calls[i].format = "json"}

\* C17: the orchestrator only moves forward: the pull request request precedes
\* every diff request, the diff request precedes every completion call, every
\* completion call precedes the submission of the review, and no state is
\* entered again once it has been left.
C17_OnlyForward ==
    /\ [](/\ calls # <<>> => MetadataRequests = {1}
          /\ \A i \in DiffRequests \cup Comparisons : i = 2
          /\ \A j \in Completions : 2 < j /\ DiffRequests \cup Comparisons # {}
          /\ \A k \in Reviews :
                /\ k = Len(calls)
                /\ Completions # {}
                /\ \A j \in Completions : j < k)
    /\ [][/\ Rank(stage', terminal') >= Rank(stage, terminal)
          /\ Len(calls') >= Len(calls) /\ SubSeq(calls', 1, Len(calls)) = calls
          /\ terminal = "none"]_vars

\* a run has submitted its review after two completion calls
C17_Witness ==
    /\ terminal = "Submitted"
    /\ Cardinality(Completions) >= 2
    /\ stage = "Analyzed"

CompletionsAnswered == {i \in 1..Len(answers) : answers[i].api = "chat.completions.create"}

\* the completion calls that have been sent and have not yet returned or failed
InFlight == Cardinality(Completions) - Cardinality(CompletionsAnswered)

\* the comments that the reply v to the chunk at (fi, ci) adds to the accumulator
CommentsOfReply(v) ==
    IF Truthy(v)
    THEN createComment(filteredDiff[fi], filteredDiff[fi].chunks[ci], v).value
    ELSE <<>>

\* C18: completion calls are strictly sequential: at most one is in flight at
\* any moment, and the call for a chunk starts only in the step in which the
\* call for the chunk before it has returned and its comments have been pushed
\* to the accumulator.
C18_CompletionsSequential ==
    /\ [](/\ InFlight \in {0, 1}
          /\ InFlight = 1 <=> pc = "awaitCompletion")
    /\ [][(Cardinality(Completions') > Cardinality(Completions)) =>
            /\ Cardinality(Completions') = Cardinality(Completions) + 1
            /\ InFlight' = 1
            /\ Completions # {} =>
                /\ InFlight = 1
                /\ answers' = Append(answers, Answered("chat.completions.create",
                                                       response'.ok))
                /\ comments' = push(comments, CommentsOfReply(aiResponse'))
                /\ <<fi', ci'>> = nextChunk(filteredDiff, fi, ci + 1)]_vars

\* the call for the second chunk is in flight, with the comments of the first
\* chunk in the accumulator
C18_Witness ==
    /\ pc = "awaitCompletion"
    /\ Cardinality(Completions) = 2
    /\ Cardinality(CompletionsAnswered) = 1
    /\ comments # <<>>

\* the prompts of the chunks of a file, in the order of the chunks
ChunkPrompts(file) ==
    [j \in 1..Len(file.chunks) |-> createPrompt(file, file.chunks[j], prDetails)]

\* the prompts of the chunks of the files that are not deleted, in diff order
RECURSIVE ExpectedPrompts(_)
ExpectedPrompts(files) ==
    IF files = <<>> THEN <<>>
    ELSE (IF Head(files).hasTo /\ Head(files).to = DevNull
          THEN <<>>
          ELSE ChunkPrompts(Head(files)))
         \o ExpectedPrompts(Tail(files))

IsCompletion(call) == call.api = "chat.completions.create"

\* the prompts sent to the completion service so far, in the order of the calls
SentPrompts ==
    LET sent == SelectSeq(calls, IsCompletion)
    IN  [i \in 1..Len(sent) |-> sent[i].content]

\* C19: the completion service is called once for each chunk of each file that
\* survived the path filter and is not deleted, a file with no target path
\* included, in diff order, whether the calls succeed or fail; at the end of
\* the analysis every such chunk has had its call, and at no moment has a
\* chunk had two calls or any other chunk a call.
C19_OneCallPerChunk ==
    /\ IsPrefix(SentPrompts, ExpectedPrompts(filteredDiff))
    /\ stage = "Analyzed" => SentPrompts = ExpectedPrompts(filteredDiff)
    /\ (pc = "awaitCompletion") =>
            /\ SentPrompts # <<>>
            /\ SentPrompts[Len(SentPrompts)] =
                 createPrompt(filteredDiff[fi], filteredDiff[fi].chunks[ci], prDetails)

\* the analysis has ended after one call for the chunk of a file with no
\* target path and one for the chunk of y.ts, and one of the two calls failed
C19_Witness ==
    /\ stage = "Analyzed"
    /\ filteredDiff = <<F_noTo, F_yts>>
    /\ Len(SentPrompts) = 2
    /\ \E i \in CompletionsAnswered : ~answers[i].ok
    /\ \E i \in CompletionsAnswered : answers[i].ok

Terminals == {"Submitted", "Skipped", "Failed"}

\* C20: when every external call returns or fails in the end, the run reaches
\* a terminal state; it reaches one only, Submitted and Skipped with exit code
\* 0 and Failed with exit code 1; and while a completion call has not answered
\* the run is in no terminal state: the only step it can take is the answer of
\* that call.
C20_TerminatesOnce ==
    /\ <>(pc = "done" /\ terminal \in Terminals)
    /\ [](/\ (pc = "done") <=> (terminal \in Terminals)
          /\ (terminal \notin Terminals) <=> (terminal = "none")
          /\ terminal \in {"Submitted", "Skipped"} => exitCode = 0
          /\ terminal = "Failed" => exitCode = 1
          /\ terminal = "none" => exitCode = -1
          /\ pc = "awaitCompletion" => terminal = "none")
    /\ [][/\ terminal = "none"
          /\ pc = "awaitCompletion" =>
                answers' = Append(answers, Answered("chat.completions.create",
                                                    response'.ok))]_vars

\* a run has ended as Skipped, with exit code 0, after completion calls that
\* gave no comment
C20_Witness ==
    /\ pc = "done"
    /\ terminal = "Skipped"
    /\ exitCode = 0
    /\ stage = "Analyzed"
    /\ Completions # {}
    /\ Len(answers) = Len(calls)

====
